---- MODULE Spec2Model ----
(***************************************************************************)
(* Model of runway.cfngin.hooks.base: the Hook base class, its tag merge,  *)
(* and the deploy/destroy polling loop (_run_stack_action and              *)
(* _wait_for_stack) driven by HookDeployAction / HookDestroyAction.        *)
(*                                                                         *)
(* The action's run() is an external collaborator: every invocation        *)
(* returns a status chosen by the environment, or raises.                  *)
(***************************************************************************)
EXTENDS Integers, Sequences, FiniteSets, TLC

VARIABLES
    context_tags,   \* context.tags, as seen by the hook
    kwargs_tags,    \* the "tags" keyword argument handed to __init__ (input, kept for reference)
    args_tags,      \* self.args.tags
    self_stack,     \* self.stack (NoStack models None)
    blueprint,      \* self.blueprint (None when the hook has none)
    self_stack_name,    \* self.stack_name
    provider,       \* self.provider
    deploy_provider,    \* self._deploy_action._provider
    destroy_provider,   \* self._destroy_action._provider
    generated,      \* stack returned by the last generate_stack (NoGenerated: none)
    ret_tags,       \* value returned by the last read of the `tags` property
    pc,             \* position of the current call: idle, run, loop, done
    op,             \* the entry point of the current call
    action,         \* the action object the call drives
    wait,           \* the wait argument
    given,          \* the stack and last_status arguments as the caller passed them
    stack,          \* local `stack` of the call, after resolution
    status,         \* local `status`
    last_status,    \* local `last_status` of _wait_for_stack
    till_reason,    \* the till_reason argument of _wait_for_stack
    history,        \* statuses returned by action.run during the call, in order
    calls,          \* every action.run invocation of the call, in order: the action,
                    \* its arguments and the provider the action works with
    log,            \* lines written by _log_stack during the call, in order
    result,         \* status returned by the call (NoStatus: none)
    raised          \* exception that left the call (NoError: none)

hookVars == <<context_tags, kwargs_tags, args_tags, self_stack, blueprint, self_stack_name,
              provider, deploy_provider, destroy_provider>>
outVars == <<ret_tags, generated>>
callVars == <<pc, op, action, wait, given, stack, status, last_status, till_reason,
              history, calls, log, result, raised>>
vars == <<context_tags, kwargs_tags, args_tags, self_stack, blueprint, self_stack_name,
          provider, deploy_provider, destroy_provider, generated, ret_tags,
          pc, op, action, wait, given, stack, status, last_status, till_reason,
          history, calls, log, result, raised>>

----------------------------------------------------------------------------
(* Bounds *)

MaxAttempts == 3    \* action.run invocations modelled per call

----------------------------------------------------------------------------
(* Values *)

None == "None"      \* Python's None, where a string is expected

Reasons == {None, "", "rollback", "CREATE_IN_PROGRESS"}

Codes == {"PENDING", "SUBMITTED", "COMPLETE", "SKIPPED", "FAILED"}

Status(code, reason) == [code |-> code, reason |-> reason]

PENDING == Status("PENDING", None)
SUBMITTED == Status("SUBMITTED", None)
COMPLETE == Status("COMPLETE", None)
SKIPPED == Status("SKIPPED", None)
FAILED == Status("FAILED", None)

NoStatus == Status("None", None)

Statuses == [code : Codes, reason : Reasons]

\* Status.__eq__: two statuses are equal when their codes are
StatusEq(a, b) == a.code = b.code

\* Status.name
StatusName(s) ==
    CASE s.code = "PENDING" -> "pending"
      [] s.code = "SUBMITTED" -> "submitted"
      [] s.code = "COMPLETE" -> "complete"
      [] s.code = "SKIPPED" -> "skipped"
      [] s.code = "FAILED" -> "failed"
      [] OTHER -> "none"

\* truth value of an Optional[Status]: None is false, a Status object is true
StatusTruthy(s) == s # NoStatus

\* truth value of an Optional[str]: None and the empty string are false
StrTruthy(r) == r # None /\ r # ""

NoStack == [name |-> None, fqn |-> None]
HeldStack == [name |-> "stack", fqn |-> "ns-stack"]
ArgStack == [name |-> "other", fqn |-> "ns-other"]

\* truth value of an Optional[Stack]
StackTruthy(s) == s # NoStack

NoError == [type |-> None]
ValueError(msg) == [type |-> "ValueError", msg |-> msg]
StackFailed(stack_name, status_reason) ==
    [type |-> "StackFailed", stack_name |-> stack_name, status_reason |-> status_reason]
\* whatever action.run itself raises
ActionError == [type |-> "ActionError"]

DeployAction == "HookDeployAction"
DestroyAction == "HookDestroyAction"

\* the provider instance CFNgin passes to Hook.__init__
TheProvider == "provider"
\* the provider the inherited deploy.Action would resolve from the context
ContextProvider == "context-provider"

\* generate_stack has not been called
NoGenerated == [name |-> None]

\* variant of build_provider: the inherited resolution from the context
build_provider_FromContext(act) == ContextProvider

\* HookDeployAction.build_provider, inherited by HookDestroyAction
build_provider(act) == IF act = DeployAction THEN deploy_provider ELSE destroy_provider

\* HookDeployAction.provider, inherited by HookDestroyAction
ActionProvider(act) == IF act = DeployAction THEN deploy_provider ELSE destroy_provider

----------------------------------------------------------------------------
(* Tags *)

TagKeys == {"a", "b", "c"}
TagValues == {"1", "2", "3", "4"}

TagMaps == UNION {[D -> TagValues] : D \in SUBSET TagKeys}

\* dict.update(d, e) and dict(d, **e): e's entries replace d's
DictUpdate(d, e) ==
    [k \in (DOMAIN d) \cup (DOMAIN e) |-> IF k \in DOMAIN e THEN e[k] ELSE d[k]]

\* Hook.__init__: self.args.tags after construction
InitArgsTags(ctx, kw) == DictUpdate(kw, ctx)

\* ret_tags before the property has been read
NotRead == [unread |-> "unread"]

\* Hook.tags
tags == DictUpdate(context_tags, args_tags)

----------------------------------------------------------------------------
(* Logging *)

\* variant of LogMessage: the reason is appended unless it is None
LogMessage_ReasonNotNone(stk, st) ==
    <<stk.name, ":", StatusName(st)>>
        \o (IF st.reason # None THEN <<" (", st.reason, ")">> ELSE <<>>)

\* Hook._log_stack, the text: "<stack.name>:<status.name>" and, when the
\* reason is true, " (<reason>)".  The text is kept as its pieces in order.
LogMessage(stk, st) ==
    <<stk.name, ":", StatusName(st)>>
        \o (IF StrTruthy(st.reason) THEN <<" (", st.reason, ")">> ELSE <<>>)

\* Hook._log_stack, the logger method chosen from the status code
LogLevel(st) ==
    IF st.code = SUBMITTED.code THEN "notice"
    ELSE IF st.code = COMPLETE.code THEN "success"
    ELSE IF st.code = FAILED.code THEN "error"
    ELSE "info"

\* Hook._log_stack: the line written for `st`.  The fields status and at
\* record which status was logged and its index in `history` (0: the status
\* the polling loop was started with); they are not part of the output.
_log_stack(stk, st, idx) ==
    [level |-> LogLevel(st), msg |-> LogMessage(stk, st), status |-> st, at |-> idx]

----------------------------------------------------------------------------
(* Decisions of _run_stack_action and _wait_for_stack *)

\* variant of ResolveStack: the held stack is preferred to the argument
ResolveStack_HeldFirst(s, held) == IF StackTruthy(held) THEN held ELSE s

\* `stack = stack or self.stack`
ResolveStack(s, held) == IF StackTruthy(s) THEN s ELSE held

\* variants of ShouldWait: SKIPPED polled like any other status; wait ignored
ShouldWait_PollsSkipped(w, st) == w
ShouldWait_IgnoresWait(w, st) == ~StatusEq(st, SKIPPED)

\* `if wait and status != SKIPPED`
ShouldWait(w, st) == w /\ ~StatusEq(st, SKIPPED)

\* variant of WaitStart: the loop always starts from SUBMITTED
WaitStart_AlwaysSubmitted(ls) == SUBMITTED

\* `status = last_status or SUBMITTED`
WaitStart(ls) == IF StatusTruthy(ls) THEN ls ELSE SUBMITTED

\* variants of IsTerminal: COMPLETE does not end the loop; SKIPPED ends it too
IsTerminal_OnlyFailed(st) == StatusEq(st, FAILED)
IsTerminal_AlsoSkipped(st) ==
    StatusEq(st, COMPLETE) \/ StatusEq(st, FAILED) \/ StatusEq(st, SKIPPED)

\* `if status in (COMPLETE, FAILED)`
IsTerminal(st) == StatusEq(st, COMPLETE) \/ StatusEq(st, FAILED)

\* variants of TillMatch: till_reason is not looked at; the reason is compared
\* with the till_reason also when there is none
TillMatch_Never(st, till) == FALSE
TillMatch_NoTruthTest(st, till) == st.reason = till

\* `if (till_reason and status.reason) and status.reason == till_reason`
TillMatch(st, till) == StrTruthy(till) /\ StrTruthy(st.reason) /\ st.reason = till

\* variants of ReasonChanged: every pass of the loop logs; no pass does
ReasonChanged_Always(ls, st) == StatusTruthy(ls)
ReasonChanged_Never(ls, st) == FALSE

\* `if last_status and last_status.reason != status.reason`
ReasonChanged(ls, st) == StatusTruthy(ls) /\ ls.reason # st.reason

\* variants of RaisesFailed: the final status is returned whatever it is;
\* the raise is left to a FAILED status that carries a reason
RaisesFailed_Never(st) == FALSE
RaisesFailed_NeedsReason(st) == StatusEq(st, FAILED) /\ StrTruthy(st.reason)
\* variant of RaisesFailed: a status that matches the till_reason is returned
RaisesFailed_UnlessTillMatch(st) == StatusEq(st, FAILED) /\ ~TillMatch(st, till_reason)

\* `if status == FAILED` after the loop
RaisesFailed(st) == StatusEq(st, FAILED)

\* variant of PropagatedError: the action's error is reported as a stack failure
PropagatedError_AsStackFailed(e) == StackFailed(stack.fqn, None)

\* action.run is called outside any try block (lines 193 and 241): what it
\* raises leaves the call as it is
PropagatedError(e) == e

\* variant of FinalLog: no final line when the status was logged already
FinalLog_UnlessLogged(lg, stk, st, idx) ==
    IF lg # <<>> /\ lg[Len(lg)].at = idx
    THEN lg
    ELSE Append(lg, _log_stack(stk, st, idx))

\* `self._log_stack(stack, status)` after the loop
FinalLog(lg, stk, st, idx) == Append(lg, _log_stack(stk, st, idx))

----------------------------------------------------------------------------
(* State *)

NoArgs == [stack |-> NoStack, last_status |-> NoStatus]

IdleCall ==
    /\ pc = "idle"
    /\ op = None
    /\ action = None
    /\ wait = FALSE
    /\ given = NoArgs
    /\ stack = NoStack
    /\ status = NoStatus
    /\ last_status = NoStatus
    /\ till_reason = None
    /\ history = <<>>
    /\ calls = <<>>
    /\ log = <<>>
    /\ result = NoStatus
    /\ raised = NoError

\* A hook built by __init__ from the context's tags and the hook's arguments.
\* self.stack is a class attribute (None) that a subclass may set.
Constructed(ctx, kw, held) ==
    /\ context_tags = ctx
    /\ kwargs_tags = kw
    /\ args_tags = InitArgsTags(ctx, kw)
    /\ self_stack = held
    /\ self_stack_name = "stack"
    /\ provider = TheProvider
    /\ deploy_provider = TheProvider
    /\ destroy_provider = TheProvider
    /\ ret_tags = NotRead
    /\ generated = NoGenerated

ExampleContextTags == [k \in {"a", "b"} |-> IF k = "a" THEN "1" ELSE "2"]
ExampleHookTags == [k \in {"b", "c"} |-> IF k = "b" THEN "3" ELSE "4"]

Init ==
    /\ \E held \in {NoStack, HeldStack} :
           Constructed(ExampleContextTags, ExampleHookTags, held)
    /\ blueprint = None
    /\ IdleCall

----------------------------------------------------------------------------
(* Operations *)

\* Hook._run_stack_action up to the first action.run: resolve the stack and
\* raise ValueError when there is none.
RunStackActionEnter(name, act, s, w) ==
    /\ pc = "idle"
    /\ op' = name
    /\ action' = act
    /\ wait' = w
    /\ given' = [stack |-> s, last_status |-> NoStatus]
    /\ stack' = ResolveStack(s, self_stack)
    /\ IF StackTruthy(ResolveStack(s, self_stack))
       THEN /\ pc' = "run"
            /\ raised' = raised
       ELSE /\ pc' = "done"
            /\ raised' = ValueError("stack required")
    /\ UNCHANGED <<status, last_status, till_reason, history, calls, log, result>>
    /\ UNCHANGED <<hookVars, outVars>>

\* Hook.deploy_stack
deploy_stack ==
    \E s \in {NoStack, ArgStack}, w \in BOOLEAN :
        RunStackActionEnter("deploy_stack", DeployAction, s, w)

\* Hook.destroy_stack
destroy_stack ==
    \E s \in {NoStack, ArgStack}, w \in BOOLEAN :
        RunStackActionEnter("destroy_stack", DestroyAction, s, w)

\* Hook._run_stack_action from the first action.run on: the attempt with
\* PENDING, its log line, then either the return or the entry into
\* _wait_for_stack (whose stack argument is the resolved one).
_run_stack_action ==
    /\ pc = "run"
    /\ calls' = Append(calls, [action |-> action, stack |-> stack, status |-> PENDING,
                               provider |-> ActionProvider(action)])
    /\ \/ \E st \in Statuses :
            /\ history' = Append(history, st)
            /\ log' = Append(log, _log_stack(stack, st, Len(history) + 1))
            /\ IF ShouldWait(wait, st)
               THEN /\ pc' = "loop"
                    /\ last_status' = st
                    /\ status' = WaitStart(st)
                    /\ result' = result
               ELSE /\ pc' = "done"
                    /\ status' = st
                    /\ result' = st
                    /\ last_status' = last_status
            /\ raised' = raised
       \/ /\ raised' = PropagatedError(ActionError)
          /\ pc' = "done"
          /\ UNCHANGED <<status, last_status, history, log, result>>
    /\ UNCHANGED <<op, action, wait, given, stack, till_reason>>
    /\ UNCHANGED <<hookVars, outVars>>

\* arguments a hook hands to _wait_for_stack in this model
WaitLastStatuses ==
    {NoStatus,
     Status("PENDING", None),
     Status("SUBMITTED", ""),
     Status("SUBMITTED", "rollback"),
     Status("SUBMITTED", "CREATE_IN_PROGRESS"),
     Status("SKIPPED", "CREATE_IN_PROGRESS"),
     Status("COMPLETE", None),
     Status("FAILED", "CREATE_IN_PROGRESS")}

TillReasons == {None, "", "CREATE_IN_PROGRESS"}

\* Hook._wait_for_stack called by a hook itself: the entry up to the loop
_wait_for_stack ==
    /\ pc = "idle"
    /\ \E act \in {DeployAction, DestroyAction}, ls \in WaitLastStatuses,
          s \in {NoStack, ArgStack}, till \in TillReasons :
        /\ op' = "_wait_for_stack"
        /\ action' = act
        /\ given' = [stack |-> s, last_status |-> ls]
        /\ last_status' = ls
        /\ till_reason' = till
        /\ stack' = ResolveStack(s, self_stack)
        /\ IF StackTruthy(ResolveStack(s, self_stack))
           THEN /\ pc' = "loop"
                /\ status' = WaitStart(ls)
                /\ raised' = raised
           ELSE /\ pc' = "done"
                /\ status' = status
                /\ raised' = ValueError("stack required")
    /\ UNCHANGED <<wait, history, calls, log, result>>
    /\ UNCHANGED <<hookVars, outVars>>

\* Hook._wait_for_stack, leaving the loop: one of the two break conditions
\* holds; the final status is logged, then StackFailed is raised or the
\* status returned.
WaitLoopBreak ==
    /\ pc = "loop"
    /\ IsTerminal(status) \/ TillMatch(status, till_reason)
    /\ log' = FinalLog(log, stack, status, Len(history))
    /\ IF RaisesFailed(status)
       THEN /\ raised' = StackFailed(stack.fqn, status.reason)
            /\ result' = result
       ELSE /\ raised' = raised
            /\ result' = status
    /\ pc' = "done"
    /\ UNCHANGED <<op, action, wait, given, stack, status, last_status, till_reason,
                   history, calls>>
    /\ UNCHANGED <<hookVars, outVars>>

\* Hook._wait_for_stack, one pass of the loop body: no break condition holds;
\* a changed reason is logged, then action.run is invoked with the current
\* status and returns one of `answers` or raises.
WaitLoopPass(answers) ==
    /\ pc = "loop"
    /\ ~(IsTerminal(status) \/ TillMatch(status, till_reason))
    /\ Len(history) < MaxAttempts
    /\ log' = IF ReasonChanged(last_status, status)
              THEN Append(log, _log_stack(stack, status, Len(history)))
              ELSE log
    /\ last_status' = IF ReasonChanged(last_status, status) THEN status ELSE last_status
    /\ calls' = Append(calls, [action |-> action, stack |-> stack, status |-> status,
                               provider |-> ActionProvider(action)])
    /\ \/ \E st \in answers :
            /\ status' = st
            /\ history' = Append(history, st)
            /\ UNCHANGED <<pc, raised>>
       \/ /\ raised' = PropagatedError(ActionError)
          /\ pc' = "done"
          /\ UNCHANGED <<status, history>>
    /\ UNCHANGED <<op, action, wait, given, stack, till_reason, result>>
    /\ UNCHANGED <<hookVars, outVars>>

\* a pass of the loop in which action.run may return any status
WaitLoopPoll == WaitLoopPass(Statuses)

\* The call has returned or raised; the hook is ready for the next call.
Return ==
    /\ pc = "done"
    /\ pc' = "idle"
    /\ op' = None
    /\ action' = None
    /\ wait' = FALSE
    /\ given' = NoArgs
    /\ stack' = NoStack
    /\ status' = NoStatus
    /\ last_status' = NoStatus
    /\ till_reason' = None
    /\ history' = <<>>
    /\ calls' = <<>>
    /\ log' = <<>>
    /\ result' = NoStatus
    /\ raised' = NoError
    /\ UNCHANGED <<hookVars, outVars>>

Next ==
    \/ deploy_stack
    \/ destroy_stack
    \/ _run_stack_action
    \/ _wait_for_stack
    \/ WaitLoopBreak
    \/ WaitLoopPoll
    \/ Return

Spec == Init /\ [][Next]_vars

----------------------------------------------------------------------------
(* deploy_stack / destroy_stack against an action that ends: the action
   returns COMPLETE or FAILED (or raises) in attempt MaxAttempts at the latest.
   The call runs on one thread and is never suspended, so each of its steps is
   taken once it is enabled. *)

\* what action.run may return in the next attempt when the action ends
EndingAnswers ==
    IF Len(history) + 1 >= MaxAttempts
    THEN {st \in Statuses : st.code \in {"COMPLETE", "FAILED"}}
    ELSE Statuses

\* a pass of the loop against an action that ends
WaitLoopPollEnding == WaitLoopPass(EndingAnswers)

NextEnding ==
    \/ deploy_stack
    \/ destroy_stack
    \/ _run_stack_action
    \/ WaitLoopBreak
    \/ WaitLoopPollEnding
    \/ Return

SpecEnding ==
    /\ Init
    /\ [][NextEnding]_vars
    /\ WF_vars(_run_stack_action)
    /\ WF_vars(WaitLoopBreak)
    /\ WF_vars(WaitLoopPollEnding)

----------------------------------------------------------------------------
(* Construction and the tags property, over all tag maps *)

InitTags ==
    /\ \E ctx \in TagMaps, kw \in TagMaps, held \in {NoStack, HeldStack} :
           Constructed(ctx, kw, held)
    /\ blueprint \in {None, "blueprint"}
    /\ IdleCall

\* a read of Hook.tags
ReadTags ==
    /\ pc = "idle"
    /\ ret_tags' = tags
    /\ UNCHANGED <<hookVars, callVars, generated>>

\* variant of generate_stack: the hook keeps the stack it built
generate_stack_HoldsStack ==
    /\ pc = "idle"
    /\ generated' = [name |-> self_stack_name, tags |-> args_tags, blueprint |-> blueprint]
    /\ self_stack' = [name |-> self_stack_name, fqn |-> self_stack_name]
    /\ UNCHANGED <<context_tags, kwargs_tags, args_tags, blueprint, self_stack_name,
                   provider, deploy_provider, destroy_provider>>
    /\ UNCHANGED <<callVars, ret_tags>>

\* Hook.generate_stack: a Stack whose definition has name=self.stack_name and
\* tags=self.args.tags, and whose _blueprint is self.blueprint
generate_stack ==
    /\ pc = "idle"
    /\ generated' = [name |-> self_stack_name, tags |-> args_tags, blueprint |-> blueprint]
    /\ UNCHANGED <<hookVars, callVars, ret_tags>>

NextTags == ReadTags \/ generate_stack

SpecTags == InitTags /\ [][NextTags]_vars

----------------------------------------------------------------------------
(* Properties of deploy_stack / destroy_stack *)

PublicCall == op \in {"deploy_stack", "destroy_stack"}

EndCodes == {"COMPLETE", "FAILED"}

\* i is the position in h of the first status whose code is COMPLETE or FAILED
FirstEnd(h, i) ==
    /\ i \in 1..Len(h)
    /\ h[i].code \in EndCodes
    /\ \A j \in 1..(i - 1) : h[j].code \notin EndCodes

\* C1: in a call with wait=True whose action returns COMPLETE before any
\* FAILED, that COMPLETE status is the last one the action returns and the
\* last invocation of the action, nothing is raised, and the call returns it.
C1_CompleteIsReturned ==
    (PublicCall /\ wait) =>
        \A i \in 1..Len(history) :
            (FirstEnd(history, i) /\ history[i].code = "COMPLETE") =>
                /\ Len(history) = i
                /\ Len(calls) = i
                /\ raised = NoError
                /\ pc \in {"loop", "done"}
                /\ pc = "done" => result = history[i]

C1_Witness ==
    /\ PublicCall /\ wait /\ pc = "done"
    /\ Len(history) = 3
    /\ history[1].code = "PENDING"
    /\ history[2].code = "SUBMITTED"
    /\ history[3] = Status("COMPLETE", "rollback")
    /\ result = history[3]

\* C2: in a call with wait=True whose action returns FAILED with reason R
\* before any COMPLETE, the call raises StackFailed carrying R and the fqn of
\* the stack the action was run on, and returns no status.
C2_FailedRaisesStackFailed ==
    (PublicCall /\ wait) =>
        \A i \in 1..Len(history) :
            (FirstEnd(history, i) /\ history[i].code = "FAILED") =>
                /\ Len(history) = i
                /\ Len(calls) = i
                /\ result = NoStatus
                /\ pc \in {"loop", "done"}
                /\ pc = "loop" => raised = NoError
                /\ pc = "done" =>
                       raised = [type |-> "StackFailed",
                                 stack_name |-> calls[1].stack.fqn,
                                 status_reason |-> history[i].reason]

C2_Witness ==
    /\ PublicCall /\ wait /\ pc = "done"
    /\ Len(history) = 2
    /\ history[2] = Status("FAILED", "rollback")
    /\ raised = StackFailed("ns-other", "rollback")

\* C3 as stated: no call of deploy_stack or destroy_stack, with wait=True or
\* wait=False, returns a FAILED status.
C3_NeverReturnsFailed ==
    (PublicCall /\ pc = "done") => result.code # "FAILED"

\* C3 as amended: a call with wait=True never returns a FAILED status, it
\* returns a status that is not FAILED or raises; a call with wait=False
\* returns the status of its single attempt as it is, FAILED included.
C3_WaitedNeverReturnsFailed ==
    (PublicCall /\ pc = "done") =>
        /\ wait => /\ result.code # "FAILED"
                   /\ (result = NoStatus) # (raised = NoError)
        /\ (~wait /\ history # <<>>) => result = history[1] /\ raised = NoError

C3_Witness ==
    /\ PublicCall /\ wait /\ pc = "done"
    /\ history # <<>>
    /\ history[Len(history)].code = "FAILED"
    /\ raised.type = "StackFailed"
    /\ result = NoStatus

\* C4: when the first attempt of a call with wait=True returns SKIPPED the
\* call is over: the action was invoked once, the loop was not entered, one
\* line was logged, nothing is raised and SKIPPED is returned.
C4_SkippedFirstReturnsAtOnce ==
    (PublicCall /\ wait /\ history # <<>> /\ history[1].code = "SKIPPED") =>
        /\ pc = "done"
        /\ Len(history) = 1
        /\ Len(calls) = 1
        /\ Len(log) = 1
        /\ raised = NoError
        /\ result = history[1]

C4_Witness ==
    /\ PublicCall /\ wait /\ pc = "done"
    /\ history = <<Status("SKIPPED", "rollback")>>
    /\ result = Status("SKIPPED", "rollback")

\* C5: a call with wait=False invokes the action once, with PENDING; when that
\* attempt returns a status, whatever its code, the call logs it once and
\* returns it.
C5_NoWaitRunsOnce ==
    (PublicCall /\ ~wait) =>
        /\ Len(calls) <= 1
        /\ calls # <<>> => calls[1].status = PENDING /\ pc = "done"
        /\ history # <<>> =>
               /\ Len(history) = 1
               /\ Len(calls) = 1
               /\ Len(log) = 1
               /\ log[1].status = history[1]
               /\ result = history[1]
               /\ raised = NoError

C5_Witness ==
    /\ PublicCall /\ ~wait /\ pc = "done"
    /\ history = <<Status("SUBMITTED", "CREATE_IN_PROGRESS")>>
    /\ result = history[1]
    /\ Len(calls) = 1

----------------------------------------------------------------------------
(* Properties of the tag merge *)

\* the union of two tag maps in which the hook's value wins on a shared key
HookWinsUnion(ctx, kw) ==
    [k \in (DOMAIN ctx) \cup (DOMAIN kw) |-> IF k \in DOMAIN kw THEN kw[k] ELSE ctx[k]]

\* C6: the `tags` property of a hook built from context tags and hook
\* argument tags is the union of the two maps, the hook-supplied value
\* winning on a key both define.
C6_HookTagsWin ==
    ret_tags # NotRead => ret_tags = HookWinsUnion(context_tags, kwargs_tags)

----------------------------------------------------------------------------
(* Properties of the stack resolution *)

\* C7: a call acts on the stack argument when one is given and on the held
\* stack otherwise; with neither it raises the "stack required" error
\* (ValueError in the code) before the action is invoked or a line is logged.
C7_StackResolution ==
    pc # "idle" =>
        LET target == IF given.stack # NoStack THEN given.stack ELSE self_stack IN
        IF target = NoStack
        THEN /\ pc = "done"
             /\ raised = [type |-> "ValueError", msg |-> "stack required"]
             /\ calls = <<>>
             /\ history = <<>>
             /\ log = <<>>
             /\ result = NoStatus
        ELSE /\ raised.type # "ValueError"
             /\ \A i \in 1..Len(calls) : calls[i].stack = target
             /\ \A i \in 1..Len(log) : log[i].msg[1] = target.name
             /\ raised.type = "StackFailed" => raised.stack_name = target.fqn

C7_Witness ==
    /\ PublicCall /\ pc = "done"
    /\ given.stack = NoStack /\ self_stack = NoStack
    /\ raised = ValueError("stack required")
    /\ calls = <<>> /\ log = <<>>

----------------------------------------------------------------------------
(* Properties of the log *)

\* positions in `history` of the lines of the log, in order
LogAt == [l \in 1..Len(log) |-> log[l].at]

\* The positions i..Len(h) of the statuses that are neither COMPLETE nor
\* FAILED and whose reason differs from the reason logged last before them.
RECURSIVE Transitions(_, _, _)
Transitions(h, i, lastReason) ==
    IF i > Len(h) \/ h[i].code \in EndCodes
    THEN <<>>
    ELSE IF h[i].reason # lastReason
         THEN <<i>> \o Transitions(h, i + 1, h[i].reason)
         ELSE Transitions(h, i + 1, lastReason)

\* a call with wait=True that went through the polling loop to its end
PolledToEnd ==
    /\ PublicCall /\ wait /\ pc = "done"
    /\ history # <<>>
    /\ history[1].code # "SKIPPED"
    /\ raised.type \in {None, "StackFailed"}

\* C8: the log of a polled call is the status of the first attempt, then every
\* later status that is not COMPLETE or FAILED and whose reason differs from
\* the reason of the status logged last, then the final status.
C8_TransitionLog ==
    PolledToEnd =>
        /\ LogAt = <<1>> \o Transitions(history, 2, history[1].reason) \o <<Len(history)>>
        /\ \A l \in 1..Len(log) : log[l].status = history[log[l].at]

C8_Witness ==
    /\ PolledToEnd
    /\ history = <<Status("SUBMITTED", None), Status("SUBMITTED", "rollback"),
                   Status("COMPLETE", None)>>
    /\ Len(log) = 3
    /\ LogAt = <<1, 2, 3>>

Logged(i) == \E l \in 1..Len(log) : log[l].at = i /\ log[l].status = history[i]

\* C9 as stated: every status the action returned that differs from the one
\* observed before it, in code or in reason, is in the log.
C9_EveryDistinctStatusLogged ==
    (PublicCall /\ pc = "done") =>
        \A i \in 1..Len(history) :
            (i = 1 \/ history[i] # history[i - 1]) => Logged(i)

\* C9 as amended: the first status and every status whose reason differs from
\* the reason of the one observed before it is in the log; a status that
\* differs from its predecessor in code only is logged only when it is the
\* first or the final one.
C9_EveryReasonChangeLogged ==
    (PublicCall /\ pc = "done") =>
        \A i \in 1..Len(history) :
            (i = 1 \/ history[i].reason # history[i - 1].reason) => Logged(i)

C9_Witness ==
    /\ PublicCall /\ wait /\ pc = "done"
    /\ history = <<Status("PENDING", None), Status("SUBMITTED", "rollback"),
                   Status("COMPLETE", "rollback")>>
    /\ Logged(2)

----------------------------------------------------------------------------
(* Properties of _wait_for_stack with a till_reason *)

\* the i-th status the loop looked at; 0 is the one it started with
Observed(i) ==
    IF i = 0
    THEN IF given.last_status = NoStatus THEN SUBMITTED ELSE given.last_status
    ELSE history[i]

\* i is the first status observed whose reason is the till_reason
FirstTillMatch(i) ==
    /\ i \in 0..Len(history)
    /\ Observed(i).reason = till_reason
    /\ \A j \in 0..(i - 1) : Observed(j).reason # till_reason

\* C10: in _wait_for_stack with a (non-empty) till_reason, the first status
\* observed whose reason is the till_reason ends the loop although its code is
\* neither COMPLETE nor FAILED: it is the last status the action returns and
\* the last invocation, it is logged once, as the last line, and it is
\* returned with nothing raised.
C10_TillReasonStopsLoop ==
    (op = "_wait_for_stack" /\ stack # NoStack /\ StrTruthy(till_reason)) =>
        \A i \in 0..Len(history) :
            (FirstTillMatch(i) /\ Observed(i).code \notin EndCodes) =>
                /\ Len(history) = i
                /\ Len(calls) = i
                /\ raised = NoError
                /\ pc \in {"loop", "done"}
                /\ pc = "loop" => \A l \in 1..Len(log) : log[l].at # i
                /\ pc = "done" =>
                       /\ result = Observed(i)
                       /\ Cardinality({l \in 1..Len(log) : log[l].at = i}) = 1
                       /\ log[Len(log)].at = i
                       /\ log[Len(log)].status = Observed(i)

C10_Witness ==
    /\ op = "_wait_for_stack" /\ pc = "done"
    /\ till_reason = "CREATE_IN_PROGRESS"
    /\ Len(history) = 2
    /\ history[1].reason # till_reason
    /\ history[2] = Status("SUBMITTED", "CREATE_IN_PROGRESS")
    /\ result = history[2]
    /\ raised = NoError

----------------------------------------------------------------------------
(* Properties of the calls of action.run *)

\* the last invocation of action.run returned no status: it raised
ActionRaised == Len(calls) > Len(history)

\* C11: an error raised by action.run, in the first attempt or a later one,
\* leaves the call as it is and at once: no invocation follows, no status is
\* returned, StackFailed does not replace it, and the log has no final line,
\* only the first status and the reason changes seen before the error.
C11_ActionErrorPropagates ==
    ActionRaised =>
        /\ pc = "done"
        /\ raised = ActionError
        /\ result = NoStatus
        /\ Len(calls) = Len(history) + 1
        /\ PublicCall =>
               LogAt = IF history = <<>>
                       THEN <<>>
                       ELSE <<1>> \o Transitions(history, 2, history[1].reason)

C11_Witness ==
    /\ PublicCall /\ wait /\ pc = "done"
    /\ raised = ActionError
    /\ Len(history) = 2
    /\ Len(calls) = 3
    /\ history[1].reason # history[2].reason
    /\ Len(log) = 2

\* C12: the first invocation of a deploy_stack/destroy_stack call receives
\* PENDING and every later one the status the invocation before it returned;
\* all of them run the call's own action (deploy for deploy_stack, destroy for
\* destroy_stack) on the same stack.
C12_StatusFeedback ==
    PublicCall =>
        \A i \in 1..Len(calls) :
            /\ calls[i].status = IF i = 1 THEN Status("PENDING", None) ELSE history[i - 1]
            /\ calls[i].stack = calls[1].stack
            /\ calls[i].action = IF op = "deploy_stack"
                                 THEN "HookDeployAction"
                                 ELSE "HookDestroyAction"

C12_Witness ==
    /\ op = "destroy_stack" /\ wait /\ pc = "done"
    /\ Len(calls) = 3
    /\ calls[2].status = Status("PENDING", "")
    /\ calls[3].status = Status("SUBMITTED", "rollback")
    /\ calls[3].action = "HookDestroyAction"

----------------------------------------------------------------------------
(* Termination of the polling loop *)

\* C13: the loop is left only by a raise of action.run, on a COMPLETE or
\* FAILED status, or on a status whose reason is the till_reason; and against
\* an action that in the end returns COMPLETE or FAILED, every call with
\* wait=True that has started returns or raises, however often the action
\* returns the same status that is neither.
C13_PollingTerminates ==
    /\ [][(pc = "loop" /\ pc' = "done" /\ ~ActionRaised') =>
              \/ status.code \in EndCodes
              \/ (StrTruthy(till_reason) /\ status.reason = till_reason)]_vars
    /\ (PublicCall /\ wait /\ pc \in {"run", "loop"}) ~> (pc = "done")

C13_Witness ==
    /\ PublicCall /\ wait /\ pc = "done"
    /\ Len(history) = MaxAttempts
    /\ \A i \in 1..(MaxAttempts - 1) : history[i] = Status("SUBMITTED", "rollback")
    /\ history[MaxAttempts].code \in EndCodes

----------------------------------------------------------------------------
(* The final log line *)

\* the call went into the polling loop and came out of it by a break
LoopLeft ==
    /\ pc = "done"
    /\ stack # NoStack
    /\ ~ActionRaised
    /\ PublicCall => (wait /\ history # <<>> /\ history[1].code # "SKIPPED")

\* C14: when the loop has ended the last line of the log is the final status,
\* also when StackFailed is raised for it; the line is written whatever was
\* logged before, so a call with wait=True whose first attempt returns
\* COMPLETE or FAILED logs that status twice.
C14_FinalStatusLogged ==
    LoopLeft =>
        /\ log # <<>>
        /\ log[Len(log)].at = Len(history)
        /\ log[Len(log)].status = Observed(Len(history))
        /\ raised # NoError =>
               raised.type = "StackFailed" /\ log[Len(log)].status.code = "FAILED"
        /\ (PublicCall /\ Len(history) = 1) =>
               /\ Len(log) = 2
               /\ log[1] = log[2]
               /\ log[1].status = history[1]

C14_Witness ==
    /\ PublicCall /\ wait /\ pc = "done"
    /\ history = <<Status("FAILED", "rollback")>>
    /\ raised.type = "StackFailed"
    /\ Len(log) = 2
    /\ log[2].status = Status("FAILED", "rollback")

----------------------------------------------------------------------------
(* COMPLETE, FAILED and SKIPPED against the till_reason and the loop *)

\* C15: in _wait_for_stack with a till_reason, a final status that is FAILED
\* raises StackFailed also when its reason is the till_reason, and a final
\* status that is COMPLETE is returned; no FAILED status is returned.
C15_TerminalBeforeTill ==
    (op = "_wait_for_stack" /\ pc = "done" /\ stack # NoStack /\ ~ActionRaised
        /\ StrTruthy(till_reason)) =>
        LET final == Observed(Len(history)) IN
        /\ final.code = "FAILED" =>
               /\ raised = [type |-> "StackFailed", stack_name |-> stack.fqn,
                            status_reason |-> final.reason]
               /\ result = NoStatus
        /\ final.code = "COMPLETE" => (result = final /\ raised = NoError)
        /\ result.code # "FAILED"

C15_Witness ==
    /\ op = "_wait_for_stack" /\ pc = "done"
    /\ till_reason = "CREATE_IN_PROGRESS"
    /\ Len(history) = 2
    /\ history[2] = Status("FAILED", "CREATE_IN_PROGRESS")
    /\ raised = StackFailed(stack.fqn, "CREATE_IN_PROGRESS")
    /\ result = NoStatus

\* C16 as stated: in a call with wait=True a SKIPPED status returned by any
\* attempt ends the call: no invocation follows it and it is returned.
C16_SkippedAlwaysEndsCall ==
    (PublicCall /\ wait) =>
        \A i \in 1..Len(history) :
            history[i].code = "SKIPPED" =>
                /\ Len(history) = i
                /\ Len(calls) = i
                /\ raised = NoError
                /\ pc = "done" => result = history[i]

\* C16 as amended: SKIPPED ends a call with wait=True only as the status of
\* the first attempt, and is then returned with no further invocation; a
\* SKIPPED status returned by a later attempt does not end the loop, the
\* action is invoked again, and the call never returns it.
C16_SkippedEndsCallOnlyFirst ==
    (PublicCall /\ wait) =>
        /\ (history # <<>> /\ history[1].code = "SKIPPED") =>
               /\ pc = "done"
               /\ Len(calls) = 1
               /\ raised = NoError
               /\ result = history[1]
        /\ \A i \in 2..Len(history) :
               history[i].code = "SKIPPED" =>
                   /\ pc \in {"loop", "done"}
                   /\ pc = "done" => Len(calls) > i
                   /\ result.code # "SKIPPED"

C16_Witness ==
    /\ PublicCall /\ wait /\ pc = "done"
    /\ history = <<Status("SUBMITTED", None), Status("SKIPPED", None),
                   Status("COMPLETE", None)>>
    /\ Len(calls) = 3
    /\ result = Status("COMPLETE", None)

----------------------------------------------------------------------------
(* The lines of the log *)

\* C17: every line of the log has the severity its status code stands for
\* (SUBMITTED notice, COMPLETE success, FAILED error, any other code info) and
\* the text "<stack name>:<status name>", followed by " (<reason>)" exactly
\* when the status has a reason that is not empty.
C17_LogLineFormat ==
    \A l \in 1..Len(log) :
        LET st == log[l].status IN
        /\ log[l].level = CASE st.code = "SUBMITTED" -> "notice"
                            [] st.code = "COMPLETE" -> "success"
                            [] st.code = "FAILED" -> "error"
                            [] OTHER -> "info"
        /\ SubSeq(log[l].msg, 1, 3) =
               <<stack.name, ":",
                 CASE st.code = "PENDING" -> "pending"
                   [] st.code = "SUBMITTED" -> "submitted"
                   [] st.code = "COMPLETE" -> "complete"
                   [] st.code = "SKIPPED" -> "skipped"
                   [] st.code = "FAILED" -> "failed">>
        /\ IF st.reason \in {None, ""}
           THEN Len(log[l].msg) = 3
           ELSE SubSeq(log[l].msg, 4, Len(log[l].msg)) = <<" (", st.reason, ")">>

C17_Witness ==
    /\ PublicCall /\ wait /\ pc = "done"
    /\ history = <<Status("SKIPPED", "rollback")>>
    /\ log = <<[level |-> "info",
                msg |-> <<stack.name, ":", "skipped", " (", "rollback", ")">>,
                status |-> history[1], at |-> 1]>>

----------------------------------------------------------------------------
(* The provider *)

\* C18: the provider of the deploy and of the destroy action, read through
\* the provider property or through build_provider(), is in every state the
\* instance handed to the hook's constructor, never the one the context would
\* resolve, and every invocation of action.run works with it.
C18_ProviderBinding ==
    /\ provider = "provider"
    /\ \A act \in {"HookDeployAction", "HookDestroyAction"} :
           /\ ActionProvider(act) = "provider"
           /\ build_provider(act) = "provider"
    /\ \A i \in 1..Len(calls) : calls[i].provider = "provider"

C18_Witness ==
    /\ op = "destroy_stack" /\ wait /\ pc = "done"
    /\ Len(calls) = 3
    /\ \A i \in 1..3 : calls[i].provider = TheProvider /\ calls[i].action = DestroyAction
    /\ build_provider(DestroyAction) = TheProvider

----------------------------------------------------------------------------
(* generate_stack *)

\* C19: generate_stack returns a new stack named by the hook's stack_name that
\* carries the hook's args tags and blueprint, and leaves the hook as it was:
\* tags, held stack, blueprint, stack_name, context tags and provider are the
\* same after the call, and the new stack is not the held one.
C19_GenerateStackPure ==
    [][generated' # generated =>
           /\ generated'.name = self_stack_name
           /\ generated'.tags = args_tags
           /\ generated'.blueprint = blueprint
           /\ args_tags' = args_tags
           /\ self_stack' = self_stack
           /\ blueprint' = blueprint
           /\ self_stack_name' = self_stack_name
           /\ context_tags' = context_tags
           /\ <<provider, deploy_provider, destroy_provider>>' =
                  <<provider, deploy_provider, destroy_provider>>]_vars

C19_Witness ==
    /\ generated # NoGenerated
    /\ generated.name = "stack"
    /\ generated.blueprint = "blueprint"
    /\ generated.tags = args_tags
    /\ DOMAIN args_tags = {"a", "b", "c"}
    /\ self_stack = HeldStack

----------------------------------------------------------------------------
(* What a call with wait=True returns *)

\* C20: deploy_stack and destroy_stack pass no till_reason, so a status
\* returned by a call with wait=True has the code COMPLETE or SKIPPED, never
\* PENDING or SUBMITTED; and no step of a call changes the hook's held stack,
\* args tags or provider.
C20_WaitedReturnsCompleteOrSkipped ==
    /\ []((PublicCall /\ wait) =>
              /\ till_reason = None
              /\ result # NoStatus => result.code \in {"COMPLETE", "SKIPPED"})
    /\ [][/\ self_stack' = self_stack
          /\ args_tags' = args_tags
          /\ provider' = provider
          /\ deploy_provider' = deploy_provider
          /\ destroy_provider' = destroy_provider]_vars

C20_Witness ==
    /\ PublicCall /\ wait /\ pc = "done"
    /\ self_stack = HeldStack
    /\ Len(history) = 3
    /\ history[1] = Status("PENDING", None)
    /\ history[2] = Status("SUBMITTED", None)
    /\ result = Status("COMPLETE", "")

====
